---- MODULE Spec2Model ----
(***************************************************************************)
(* A model of hexloader.c, a serial Intel-HEX bootloader for the           *)
(* ATmega328P: the boot handoff (main), the two-pass boot sequencer        *)
(* (bootloader), the line reader (get_line), the record decoder/flasher    *)
(* (flash_hex_line), the page writer (write_current_page) and the reboot   *)
(* primitives.  Characters are ASCII codes; bytes and words keep their C   *)
(* widths (% 256, % 65536; int is 16 bits on the AVR).                     *)
(***************************************************************************)
EXTENDS Integers, Sequences, FiniteSets, TLC

\* ------------------------------------------------------------------------
\* Constants of hexloader.c
\* ------------------------------------------------------------------------
LF == 10
CR == 13
ESC == 27
ERROR_RX_DATA_OVERRUN == 1
ERROR_RX_FRAME_ERROR == 2
ERROR_RX_BUFFER_OVERFLOW == 4
MODE_FLASH == 0
MODE_VERIFY == 1
FLASH_WAITING == 0
FLASH_GOING_ON == 1
FLASH_OK == 2
FLASH_ERROR == 3
PAGE_SIZE == 128
MAX_LINE_LEN == 64
FLASH_SIZE == 32768
BOOTAPP_SIG_1 == 176
BOOTAPP_SIG_2 == 170

\* widths of uint8_t and uint16_t, and the 0xffff "no address yet" sentinel
\* of flash_hex_line's static last_address
Pow8 == 256
Pow16 == 65536
NO_ADDRESS == 65535
\* the erased-flash byte new_page() fills the page buffer with
ERASED == 255
\* ASCII codes of the characters the code compares against
COLON == 58

RX_BUFFER_LEN == 1024
TX_BUFFER_LEN == 32

\* ------------------------------------------------------------------------
\* Conversion utils
\* ------------------------------------------------------------------------
\* a mutant of nibble_to_hex: lower-case-free but off by one for A..F
nibble_to_hex_off(x) ==
    LET y == x % 16 IN IF y <= 9 THEN y + 48 ELSE y + 65 - 9

nibble_to_hex(x) ==
    LET y == x % 16 IN IF y <= 9 THEN y + 48 ELSE y + 65 - 10

\* two hex chars packed in a word, leftmost char in the MSB
byte_to_hex(x) ==
    nibble_to_hex(x \div 16) * 256 + nibble_to_hex(x % 16)

\* four hex chars packed in a uint32_t, leftmost char in the MSB
word_to_hex(x) ==
    byte_to_hex(x \div 256) * 65536 + byte_to_hex(x % 256)

\* a mutant of hex_nibble_to_dec: upper-case letters decode without the +10
hex_nibble_to_dec_noten(x) ==
    IF x >= 48 /\ x <= 57 THEN x - 48
    ELSE IF x >= 65 /\ x <= 70 THEN x - 65
    ELSE IF x >= 97 /\ x <= 102 THEN x - 97 + 10
    ELSE 0

hex_nibble_to_dec(x) ==
    IF x >= 48 /\ x <= 57 THEN x - 48
    ELSE IF x >= 65 /\ x <= 70 THEN x - 65 + 10
    ELSE IF x >= 97 /\ x <= 102 THEN x - 97 + 10
    ELSE 0

\* The character at index i of the line buffer ln (a function on
\* 0..MAX_LINE_LEN-1).  An index past the buffer reads memory the program
\* does not own: the outcome is the garbage character g.
LineAt(ln, i, g) == IF i < MAX_LINE_LEN THEN ln[i] ELSE g

\* hex_byte_to_dec(line + off)
hex_byte_to_dec(ln, off, g) ==
    (16 * hex_nibble_to_dec(LineAt(ln, off, g))
        + hex_nibble_to_dec(LineAt(ln, off + 1, g))) % Pow8

\* hex_word_to_dec(line + off)
hex_word_to_dec(ln, off, g) ==
    (256 * hex_byte_to_dec(ln, off, g) + hex_byte_to_dec(ln, off + 2, g)) % Pow16

\* ------------------------------------------------------------------------
\* Page buffer and flash
\* ------------------------------------------------------------------------
\* The flash is kept sparsely: flash maps the index of every page written
\* since power-on to its 128 bytes; any other byte still holds the image
\* that was there before, read through old.
PageIndex == 0 .. (PAGE_SIZE - 1)

\* number of pages of the device
NumPages == FLASH_SIZE \div PAGE_SIZE

\* a mutant of new_page: the last byte of the buffer is left as it was
new_page_short(page) ==
    [k \in PageIndex |-> IF k < PAGE_SIZE - 1 THEN ERASED ELSE page[k]]

\* new_page(): the buffer it leaves (the argument is the buffer before)
new_page(page) == [k \in PageIndex |-> ERASED]

\* a mutant of pgm_read_byte: every read returns the erased value
pgm_read_byte_erased(flash, old, a, hw) == ERASED

\* pgm_read_byte(a), a 16-bit address.  An address past the flash is
\* resolved by the hardware: hw = "alias" ignores the top address bit,
\* hw = "none" reads the erased value.
pgm_read_byte(flash, old, a, hw) ==
    LET b == IF a < FLASH_SIZE THEN a
             ELSE IF hw = "alias" THEN a % FLASH_SIZE ELSE a
    IN IF b >= FLASH_SIZE THEN ERASED
       ELSE IF (b \div PAGE_SIZE) \in DOMAIN flash
            THEN flash[b \div PAGE_SIZE][b % PAGE_SIZE]
            ELSE old

\* the little endian word write_current_page builds from page[i], page[i+1]
PageWord(page, i) == page[i] + page[i + 1] * 256

\* the bytes boot_page_fill leaves in the page's temporary buffer
FilledPage(page) ==
    [k \in PageIndex |->
        IF k % 2 = 0 THEN PageWord(page, k) % 256
        ELSE PageWord(page, k - 1) \div 256]

\* a mutant of write_current_page: the page is erased but never committed
write_current_page_erase_only(page, cpa, flash, hw) ==
    LET target == (cpa * PAGE_SIZE) % Pow16
        p == target \div PAGE_SIZE
    IN IF target < FLASH_SIZE
       THEN [q \in (DOMAIN flash) \cup {p} |->
                IF q = p THEN [k \in PageIndex |-> ERASED] ELSE flash[q]]
       ELSE flash

\* write_current_page(): the flash after erasing, filling and committing the
\* page at current_page_address * PAGE_SIZE.  A target past the flash is
\* resolved by the hardware as in pgm_read_byte.
write_current_page(page, cpa, flash, hw) ==
    LET target == (cpa * PAGE_SIZE) % Pow16
        p == IF target < FLASH_SIZE THEN target \div PAGE_SIZE
             ELSE (target \div PAGE_SIZE) % NumPages
    IN IF target < FLASH_SIZE \/ hw = "alias"
       THEN [q \in (DOMAIN flash) \cup {p} |->
                IF q = p THEN FilledPage(page) ELSE flash[q]]
       ELSE flash

\* ------------------------------------------------------------------------
\* Diagnostics
\* ------------------------------------------------------------------------
\* point_out_error(col, carets): col spaces then carets '^'; both uint8_t
point_out_error(col, carets) ==
    [spaces |-> col % Pow8, carets |-> carets % Pow8]

NoDiag == [spaces |-> 0, carets |-> 0]

\* a mutant of is_address_valid: the first-address test is dropped
is_address_valid_any_first(last_address, address) ==
    IF last_address # NO_ADDRESS /\ address < last_address
    THEN [ok |-> FALSE, why |-> "increasing", diag |-> point_out_error(3, 4)]
    ELSE [ok |-> TRUE, why |-> "none", diag |-> NoDiag]

\* is_address_valid(last_address, address)
is_address_valid(last_address, address) ==
    IF last_address = NO_ADDRESS /\ address # 0
    THEN [ok |-> FALSE, why |-> "first", diag |-> point_out_error(3, 4)]
    ELSE IF last_address # NO_ADDRESS /\ address < last_address
    THEN [ok |-> FALSE, why |-> "increasing", diag |-> point_out_error(3, 4)]
    ELSE [ok |-> TRUE, why |-> "none", diag |-> NoDiag]

\* ------------------------------------------------------------------------
\* Decoder/Flasher
\* ------------------------------------------------------------------------
\* The state flash_hex_line works on is a record d:
\*   page, cpa (current_page_address), last (the static last_address),
\*   flash, old (the image flash held before), and writes, the history of
\*   the page indices write_current_page was called for.

\* a mutant of FlushPage: the buffer is not emptied after the write
FlushPageKeep(d, hw) ==
    [d EXCEPT !.flash = write_current_page(d.page, d.cpa, d.flash, hw),
              !.writes = Append(d.writes, d.cpa)]

\* lines 655-656: write_current_page(); new_page();
FlushPage(d, hw) ==
    [d EXCEPT !.flash = write_current_page(d.page, d.cpa, d.flash, hw),
              !.writes = Append(d.writes, d.cpa),
              !.page = new_page(d.page)]

\* a mutant of StoreByte: the page is switched without flushing the staged one
StoreByteNoFlush(d, a, b, hw) ==
    LET d1 == IF a \div PAGE_SIZE # d.cpa
              THEN [d EXCEPT !.page = new_page(d.page), !.cpa = a \div PAGE_SIZE]
              ELSE d
    IN [d1 EXCEPT !.page[a % PAGE_SIZE] = b]

\* lines 653-660: one data byte b for byte address a in MODE_FLASH
StoreByte(d, a, b, hw) ==
    LET d1 == IF a \div PAGE_SIZE # d.cpa
              THEN [FlushPage(d, hw) EXCEPT !.cpa = a \div PAGE_SIZE]
              ELSE d
    IN [d1 EXCEPT !.page[a % PAGE_SIZE] = b]

\* lines 649-671: the loop over the data bytes, from byte i on.  r carries
\* the decoder state d, the running 8-bit checksum, and the outcome so far.
RECURSIVE DataLoop(_, _, _, _, _, _, _, _)
DataLoop(i, count, address, ln, mode, g, hw, r) ==
    IF i >= count THEN r
    ELSE
      LET b == hex_byte_to_dec(ln, 9 + i * 2, g)
          a == (address + i) % Pow16
      IN IF mode = MODE_FLASH
         THEN DataLoop(i + 1, count, address, ln, mode, g, hw,
                       [r EXCEPT !.d = StoreByte(r.d, a, b, hw),
                                 !.checksum = (r.checksum + b) % Pow8])
         ELSE IF pgm_read_byte(r.d.flash, r.d.old, a, hw) # b
              THEN [r EXCEPT !.status = FLASH_ERROR, !.why = "mismatch",
                             !.at = i,
                             !.diag = point_out_error(9 + i * 2, 2)]
              ELSE DataLoop(i + 1, count, address, ln, mode, g, hw,
                            [r EXCEPT !.checksum = (r.checksum + b) % Pow8])

\* a mutant of HeaderSum: the record type is left out of the checksum
HeaderSumNoType(count, address, record_type) ==
    (count + (address % Pow8) + (address \div Pow8)) % Pow8

\* line 647: checksum = count + (uint8_t)address + (address >> 8) + record_type
HeaderSum(count, address, record_type) ==
    (count + (address % Pow8) + (address \div Pow8) + record_type) % Pow8

\* a mutant of EndOfRecord: a data record does not update last_address
EndOfRecordKeepLast(r, count, address, record_type, mode, hw) ==
    IF record_type = 1
    THEN IF mode = MODE_FLASH
         THEN [r EXCEPT !.status = FLASH_OK,
                        !.d = [FlushPage(r.d, hw) EXCEPT
                                  !.cpa = 0, !.last = NO_ADDRESS]]
         ELSE [r EXCEPT !.status = FLASH_OK]
    ELSE [r EXCEPT !.status = FLASH_GOING_ON]

\* lines 701-727: what an accepted record does after its checksum matched
EndOfRecord(r, count, address, record_type, mode, hw) ==
    IF record_type = 1
    THEN IF mode = MODE_FLASH
         THEN [r EXCEPT !.status = FLASH_OK,
                        !.d = [FlushPage(r.d, hw) EXCEPT
                                  !.cpa = 0, !.last = NO_ADDRESS]]
         ELSE [r EXCEPT !.status = FLASH_OK]
    ELSE [r EXCEPT !.status = FLASH_GOING_ON,
                   !.d.last = (address + count - 1 + Pow16) % Pow16]

\* a mutant of flash_hex_line: the checksum is never compared with zero
flash_hex_line_no_checksum(ln, mode, d, g, hw) ==
    LET count == hex_byte_to_dec(ln, 1, g)
        address == hex_word_to_dec(ln, 3, g)
        record_type == hex_byte_to_dec(ln, 7, g)
        valid == is_address_valid(d.last, address)
        r0 == [d |-> d, status |-> FLASH_GOING_ON, why |-> "none", at |-> 0,
               diag |-> NoDiag,
               checksum |-> HeaderSum(count, address, record_type)]
    IN IF record_type = 0 /\ ~valid.ok
       THEN [r0 EXCEPT !.status = FLASH_ERROR, !.why = valid.why,
                       !.diag = valid.diag]
       ELSE
         LET r1 == DataLoop(0, count, address, ln, mode, g, hw, r0)
         IN IF r1.status = FLASH_ERROR THEN r1
            ELSE EndOfRecord(r1, count, address, record_type, mode, hw)

\* flash_hex_line(mode) on the line buffer ln and the decoder state d.
\* The result carries the returned status, the decoder state after the
\* call, the reason of an error (why), the index of a mismatching byte (at)
\* and the carets printed (diag).
flash_hex_line(ln, mode, d, g, hw) ==
    LET count == hex_byte_to_dec(ln, 1, g)
        address == hex_word_to_dec(ln, 3, g)
        record_type == hex_byte_to_dec(ln, 7, g)
        valid == is_address_valid(d.last, address)
        r0 == [d |-> d, status |-> FLASH_GOING_ON, why |-> "none", at |-> 0,
               diag |-> NoDiag,
               checksum |-> HeaderSum(count, address, record_type)]
    IN IF record_type = 0 /\ ~valid.ok
       THEN [r0 EXCEPT !.status = FLASH_ERROR, !.why = valid.why,
                       !.diag = valid.diag]
       ELSE
         LET r1 == DataLoop(0, count, address, ln, mode, g, hw, r0)
             r2 == [r1 EXCEPT !.checksum =
                       (@ + hex_byte_to_dec(ln, 9 + count * 2, g)) % Pow8]
         IN IF r1.status = FLASH_ERROR THEN r1
            ELSE IF r2.checksum # 0
            THEN [r2 EXCEPT !.status = FLASH_ERROR, !.why = "checksum"]
            ELSE EndOfRecord(r2, count, address, record_type, mode, hw)

\* ------------------------------------------------------------------------
\* Line reader
\* ------------------------------------------------------------------------
LineIndex == 0 .. (MAX_LINE_LEN - 1)

\* get_line() for one received byte c (lines 479-509), on the line buffer
\* ln and the static len: the buffer and len it leaves, its return value,
\* and the index it stored at (-1: no store).
get_line_byte(ln, n, c) ==
    IF c = ESC
    THEN [line |-> [ln EXCEPT ![0] = 0], len |-> 0, ret |-> 1, at |-> 0]
    ELSE IF c = CR \/ c = LF
    THEN [line |-> IF n \in LineIndex THEN [ln EXCEPT ![n] = 0] ELSE ln,
          len |-> IF n > 0 THEN 0 ELSE n,
          ret |-> IF n > 0 THEN 1 ELSE 0,
          at |-> n]
    ELSE IF n < MAX_LINE_LEN - 1
    THEN [line |-> [ln EXCEPT ![n] = c], len |-> n + 1, ret |-> 0, at |-> n]
    ELSE IF n = MAX_LINE_LEN - 1
    THEN [line |-> [ln EXCEPT ![n] = 0], len |-> n + 1, ret |-> 0, at |-> n]
    ELSE [line |-> ln, len |-> n, ret |-> 0, at |-> -1]

\* get_line() polled once per byte of bytes, in order, until it returns 1;
\* top is the highest index the calls stored at
RECURSIVE get_line(_, _, _)
get_line(ln, n, bytes) ==
    IF bytes = <<>>
    THEN [line |-> ln, len |-> n, ret |-> 0, rest |-> <<>>, top |-> -1]
    ELSE LET s == get_line_byte(ln, n, Head(bytes))
         IN IF s.ret = 1
            THEN [line |-> s.line, len |-> s.len, ret |-> 1,
                  rest |-> Tail(bytes), top |-> s.at]
            ELSE [get_line(s.line, s.len, Tail(bytes)) EXCEPT
                     !.top = IF @ > s.at THEN @ ELSE s.at]

\* line has MAX_LINE_LEN elements (line 91); a store at line[MAX_LINE_LEN]
\* lands in the object the linker placed after it: page, declared next
\* (line 92), or an object that is not part of this model
Neighbours == {"other", "page"}

\* the decoder state d after get_line stored '\0' at index top, when the
\* object after line is o
StoreBeyond(d, top, o) ==
    IF top >= MAX_LINE_LEN /\ o = "page" THEN [d EXCEPT !.page[0] = 0] ELSE d

\* ------------------------------------------------------------------------
\* Reboot functions and boot sequencer
\* ------------------------------------------------------------------------
\* The main flow's control state is a record s: pc, mode, flash_status, the
\* signature registers r2 and r3, and wdt (the watchdog is armed).

\* a mutant of reboot_to_bootloader: the signature is left as main set it
reboot_to_bootloader_keep_sig(s) ==
    [s EXCEPT !.wdt = TRUE, !.pc = "reboot_bl"]

\* reboot_to_bootloader(): r2 = r3 = 0; wdt_enable; idle for ever
reboot_to_bootloader(s) ==
    [s EXCEPT !.r2 = 0, !.r3 = 0, !.wdt = TRUE, !.pc = "reboot_bl"]

\* reboot_to_app(): the signature is set, wdt_enable; spin for ever
reboot_to_app(s) ==
    [s EXCEPT !.r2 = BOOTAPP_SIG_1, !.r3 = BOOTAPP_SIG_2, !.wdt = TRUE,
              !.pc = "reboot_app"]

\* run_command(): 'q' = 113, 'r' = 114; 'd', 'h', the empty line and any
\* other command print and prompt, and change nothing else
run_command(s, c) ==
    IF c = 113 THEN reboot_to_app(s)
    ELSE IF c = 114 THEN reboot_to_bootloader(s)
    ELSE s

\* a mutant of PassEnd: only a pass that is still WAITING is rebooted
PassEndLax(s) ==
    IF s.flash_status = FLASH_GOING_ON \/ s.flash_status = FLASH_WAITING
    THEN s
    ELSE IF s.mode = MODE_FLASH
    THEN [s EXCEPT !.mode = MODE_VERIFY, !.flash_status = FLASH_WAITING]
    ELSE reboot_to_app(s)

\* lines 846-856: the end of the do-while and of the for loop of bootloader()
PassEnd(s) ==
    IF s.flash_status = FLASH_GOING_ON \/ s.flash_status = FLASH_WAITING
    THEN s
    ELSE IF s.flash_status # FLASH_OK
    THEN reboot_to_bootloader(s)
    ELSE IF s.mode = MODE_FLASH
    THEN [s EXCEPT !.mode = MODE_VERIFY, !.flash_status = FLASH_WAITING]
    ELSE reboot_to_app(s)

\* lines 835-846: a completed line whose first character is c is decoded
\* (status is what flash_hex_line returned) or run as a command, and then
\* the loop condition is tested; a reboot never returns
Dispatch(s, c, status) ==
    LET s1 == IF c = COLON THEN [s EXCEPT !.flash_status = status]
              ELSE run_command(s, c)
    IN IF s1.pc = "poll" THEN PassEnd(s1) ELSE s1

\* BOOT_APP()
BOOT_APP(a, b) == a = BOOTAPP_SIG_1 /\ b = BOOTAPP_SIG_2

\* a mutant of BootsApp: a watchdog reset alone also boots the application
BootsAppOnWatchdog(flags, a, b) ==
    ("EXTRF" \notin flags) \/ BOOT_APP(a, b)

\* line 873: main's decision to jump to the application
BootsApp(flags, a, b) ==
    ("EXTRF" \notin flags /\ "WDRF" \notin flags) \/ BOOT_APP(a, b)

\* ------------------------------------------------------------------------
\* The client's inputs
\* ------------------------------------------------------------------------
\* A hex record as the client means it: byte count cc, address aaaa, type
\* tt, data bytes dd and checksum byte ss.
RECURSIVE SumSeq(_)
SumSeq(q) == IF q = <<>> THEN 0 ELSE Head(q) + SumSeq(Tail(q))

\* the sum the Intel-HEX format requires to be 0 mod 256
RecSum(rec) ==
    rec.cc + (rec.aaaa \div 256) + (rec.aaaa % 256) + rec.tt
        + SumSeq(rec.dd) + rec.ss

Rec(aaaa, tt, dd) ==
    LET partial == [cc |-> Len(dd), aaaa |-> aaaa, tt |-> tt, dd |-> dd, ss |-> 0]
    IN [kind |-> "rec", cc |-> Len(dd), aaaa |-> aaaa, tt |-> tt, dd |-> dd,
        ss |-> (256 - (RecSum(partial) % 256)) % 256, text |-> <<>>]

\* the record with its checksum byte off by one
BadSum(rec) == [rec EXCEPT !.ss = (@ + 1) % 256]

\* a record that announces cc data bytes and stops after its header
Truncated(cc) ==
    [kind |-> "rec", cc |-> cc, aaaa |-> 0, tt |-> 0, dd |-> <<>>, ss |-> 0,
     text |-> <<>>]

Raw(text) ==
    [kind |-> "raw", cc |-> 0, aaaa |-> 0, tt |-> 0, dd |-> <<>>, ss |-> 0,
     text |-> text]

\* the two characters uart_send_byte_hex sends for a byte
Hex2(b) == << byte_to_hex(b) \div 256, byte_to_hex(b) % 256 >>

RECURSIVE HexData(_)
HexData(q) == IF q = <<>> THEN <<>> ELSE Hex2(Head(q)) \o HexData(Tail(q))

\* the characters of a record line, as dump_flash prints one
Encode(rec) ==
    << COLON >> \o Hex2(rec.cc) \o Hex2(rec.aaaa \div 256) \o Hex2(rec.aaaa % 256)
        \o Hex2(rec.tt) \o HexData(rec.dd)
        \o (IF rec.cc = Len(rec.dd) THEN Hex2(rec.ss) ELSE <<>>)

\* n data bytes for a record at address a
Fill(a, n) == [i \in 1 .. n |-> (a * 5 + i * 3 + 1) % 256]

\* the longest record a line of MAX_LINE_LEN - 1 characters holds
FullCount == (MAX_LINE_LEN - 1 - 11) \div 2

Script ==
    << Rec(0, 0, Fill(0, FullCount)),
       Rec(FullCount, 0, Fill(1, FullCount)),
       Rec(2 * FullCount, 0, Fill(2, FullCount)),
       Rec(3 * FullCount, 0, Fill(3, FullCount)),
       Rec(4 * FullCount, 0, Fill(4, FullCount)),
       Rec(0, 1, <<>>),
       Rec(0, 0, <<17, 170>>),
       Rec(1, 0, <<187, 204>>),
       Rec(0, 0, <<17, 171>>),
       Rec(5, 0, <<1, 2>>),
       BadSum(Rec(0, 0, <<17, 170>>)),
       BadSum(Rec(127, 0, <<3, 4>>)),
       BadSum(Rec(0, 1, <<>>)),
       Rec(0, 4, <<0, 0>>),
       Rec(65534, 0, <<5, 6>>),
       Rec(65535, 0, <<7, 8>>),
       Rec(0, 0, <<>>),
       Rec(384, 0, <<9, 10>>),
       Truncated(40),
       Raw(<<113>>),
       Raw(<<114>>),
       Raw(<<104>>),
       Raw(<<>>),
       Raw([i \in 1 .. MAX_LINE_LEN |-> 120]) >>

Inputs == 1 .. Len(Script)

\* the bytes the client sends for input k: the line and CR, or ESC alone
Bytes ==
    [k \in Inputs |->
        IF Script[k].kind = "rec" THEN Encode(Script[k]) \o << CR >>
        ELSE IF Script[k].text = <<>> THEN << ESC >>
        ELSE Script[k].text \o << CR >>]

\* The client either sends the long records of a contiguous image
\* (scenario "chain": inputs 1 to 6 and the bad record that crosses a page
\* boundary), or short records and commands (scenario "mixed"), or a short
\* record, the end of file and a line longer than the line buffer
\* (scenario "long").
InputsOf(scn) ==
    IF scn = "chain" THEN (1 .. 6) \cup {12}
    ELSE IF scn = "long" THEN {6, 7, Len(Script)}
    ELSE 6 .. (Len(Script) - 1)

\* what a read past the line buffer may return while decoding input k
Garbage(k) ==
    IF 10 + 2 * Script[k].cc >= MAX_LINE_LEN THEN {0, 48, 70} ELSE {0}

\* ------------------------------------------------------------------------
\* State
\* ------------------------------------------------------------------------
VARIABLES
    pc,            \* where the main flow is: "reset", "app", "poll" (the
                   \* do-while of bootloader), "reboot_bl" (idling in reboot),
                   \* "reboot_app" (spinning in reboot_to_app)
    mode,          \* the pass of bootloader(): MODE_FLASH or MODE_VERIFY
    flash_status,
    r2, r3,        \* the boot signature registers
    mcusr,         \* the reset cause flags of MCUSR that are set
    wdt,           \* the watchdog is armed
    uart_error,
    line, len,     \* the line buffer and get_line's static len
    dec,           \* page, cpa, last, flash, old, writes (see Decoder/Flasher)
    hw,            \* how this chip resolves an address past its flash
    scn,           \* what the client sends: "chain", "mixed", "long"; in
                   \* SpecUart "burst", "early", "lag", "echo", "fault"
    call,          \* history: the latest flash_hex_line call of this boot
    hist,          \* history: the passes of this boot, the lines received
    rx_head, rx_tail, rx_buffer,
    tx_head, tx_tail, tx_buffer,
    udrie,         \* UDRIE0 of UCSR0B: the data-register-empty interrupt is on
    up,            \* where the main flow is inside the transport code, and
                   \* the locals it holds there
    ug,            \* history: bytes arrived, read, sent and put on the wire
    hx,            \* the word the hex conversions are applied to, and results
    wdt_timer      \* the ticks left before the watchdog, if armed, expires

\* the state of bootloader(), main and the decoder
mvars == << pc, mode, flash_status, r2, r3, mcusr, wdt, uart_error, line, len,
            dec, hw, scn, call, hist >>

\* the state of the transport, and the hex conversion scratch
uvars == << rx_head, rx_tail, rx_buffer, tx_head, tx_tail, tx_buffer, udrie,
            up, ug >>

vars == << mvars, uvars, hx, wdt_timer >>

\* the number of lines the client sends in one run of the model
MaxLines == 4

\* the time-out of the watchdog (WDTO_15MS), in ticks of the model's clock
WdtTicks == 2

\* the contiguous image takes two lines more to arrive than MaxLines
Budget(s) == IF s = "chain" THEN MaxLines + 2 ELSE MaxLines

\* the ring buffers' indices
RxIndex == 0 .. (RX_BUFFER_LEN - 1)
TxIndex == 0 .. (TX_BUFFER_LEN - 1)

\* The main flow is outside the transport code.  order is how this build
\* reads a 16-bit variable: the low byte first or the high byte first.
UpIdle(order) ==
    [at |-> "idle", half |-> 0, new_head |-> 0, c |-> 0, order |-> order,
     polled |-> 0, msg |-> << >>, fatal |-> FALSE]

\* nothing has arrived, been read, been sent or been put on the wire
UgInit ==
    [arrived |-> 0, nread |-> 0, polls |-> 0, fifo |-> TRUE,
     noData |-> FALSE, unread |-> 0, sent |-> 0, wired |-> 0, txok |-> TRUE,
     quiet |-> FALSE,
     queue |-> << >>]

HxIdle == [w |-> 0, done |-> FALSE, bchars |-> << >>, bout |-> 0,
           wchars |-> << >>, wout |-> 0]

\* the transport after start-up: .bss is zero, uart_init leaves UDRIE0 off
UartInit ==
    /\ rx_head = 0
    /\ rx_tail = 0
    /\ rx_buffer = [i \in RxIndex |-> 0]
    /\ tx_head = 0
    /\ tx_tail = 0
    /\ tx_buffer = [i \in TxIndex |-> 0]
    /\ udrie = FALSE
    /\ up \in { UpIdle(o) : o \in {"lo_first", "hi_first"} }
    /\ ug = UgInit

ZeroLine == [i \in LineIndex |-> 0]
ZeroPage == [i \in PageIndex |-> 0]

NoCall ==
    [valid |-> FALSE, k |-> 0, mode |-> 0, pre |-> <<>>, status |-> 0,
     why |-> "none", at |-> 0, diag |-> NoDiag, count |-> 0, address |-> 0,
     type |-> 0, writes |-> <<>>, noDataBefore |-> FALSE, prevEnd |-> 0]

NoEnd == 0 - 2

HistInit ==
    [n |-> 0, errInBoot |-> FALSE, errPrevBoot |-> FALSE, errPending |-> FALSE,
     errMode |-> 0, wf |-> TRUE, fl |-> <<>>, fdone |-> FALSE, fwrites |-> <<>>,
     vok |-> FALSE, vpos |-> 0, noData |-> TRUE, prevEnd |-> NoEnd,
     deadman |-> FALSE, top |-> 0]

\* a record of a well-formed image: a data or end-of-file record with as many
\* data bytes as it announces, a checksum that sums to zero, and every
\* address inside the flash
WfRec(rec) ==
    /\ rec.kind = "rec"
    /\ rec.cc = Len(rec.dd)
    /\ rec.tt \in {0, 1}
    /\ rec.tt = 1 => rec.cc = 0
    /\ RecSum(rec) % 256 = 0
    /\ rec.aaaa + rec.cc <= FLASH_SIZE

\* the inputs q, in order, are the beginning of a well-formed image: data
\* records from address 0 on with non-decreasing addresses, and nothing
\* after an end-of-file record
WfImage(q) ==
    \A i \in 1 .. Len(q) :
        /\ WfRec(Script[q[i]])
        /\ Script[q[i]].tt = 1 => i = Len(q)
        /\ Script[q[i]].tt = 0 =>
              IF i = 1 THEN Script[q[i]].aaaa = 0
              ELSE Script[q[i]].aaaa >= Script[q[i - 1]].aaaa

Init ==
    /\ pc = "reset"
    /\ mode = MODE_FLASH
    /\ flash_status = FLASH_WAITING
    /\ r2 \in {0, BOOTAPP_SIG_1}
    /\ r3 \in {0, BOOTAPP_SIG_2}
    /\ mcusr = {}
    /\ wdt = FALSE
    /\ uart_error = 0
    /\ line = ZeroLine
    /\ len = 0
    /\ hw \in {"alias", "none"}
    /\ scn \in {"chain", "mixed", "long"}
    /\ dec = [page |-> ZeroPage, cpa |-> 0, last |-> NO_ADDRESS,
              flash |-> << >>, old |-> IF hw = "alias" THEN ERASED ELSE 0,
              writes |-> << >>]
    /\ call = NoCall
    /\ hist = HistInit
    /\ UartInit
    /\ up.order = "lo_first"
    /\ hx = HxIdle
    /\ wdt_timer = WdtTicks

\* ------------------------------------------------------------------------
\* Resets
\* ------------------------------------------------------------------------
\* What any reset does before main runs: the C start-up code clears .bss and
\* reloads .data (line, len, uart_error, page, current_page_address,
\* last_address); the flash keeps its contents.  deadman: the reset is the
\* watchdog expiring while bootloader() polls for a line.
Restart(deadman) ==
    /\ pc' = "reset"
    /\ mode' = MODE_FLASH
    /\ flash_status' = FLASH_WAITING
    /\ uart_error' = 0
    /\ line' = ZeroLine
    /\ len' = 0
    /\ dec' = [dec EXCEPT !.page = ZeroPage, !.cpa = 0, !.last = NO_ADDRESS,
                          !.writes = << >>]
    /\ call' = NoCall
    /\ hist' = [HistInit EXCEPT !.n = hist.n, !.errPending = hist.errPending,
                                !.errPrevBoot = hist.errInBoot,
                                !.deadman = deadman]
    /\ wdt_timer' = WdtTicks
    /\ UNCHANGED << hw, scn, uvars, hx >>

\* r2 and r3 after a reset that keeps the registers: what the bootloader
\* stored, or whatever the application left in them
KeptSignature ==
    /\ r2' \in (IF pc = "app" THEN {0, BOOTAPP_SIG_1} ELSE {r2})
    /\ r3' \in (IF pc = "app" THEN {0, BOOTAPP_SIG_2} ELSE {r3})

\* The watchdog expires: a reset that sets WDRF and keeps the registers.
\* While WDRF is set the hardware keeps the watchdog armed.  The
\* application may have armed the watchdog itself.
WatchdogReset ==
    /\ wdt \/ pc = "app"
    /\ pc \in {"poll", "reboot_bl", "reboot_app", "app"}
    /\ mcusr' = mcusr \cup {"WDRF"}
    /\ wdt' = TRUE
    /\ KeptSignature
    /\ Restart(pc = "poll")

\* The reset pin: sets EXTRF and keeps the registers.
ExternalReset ==
    /\ pc # "reset"
    /\ mcusr' = mcusr \cup {"EXTRF"}
    /\ wdt' = ("WDRF" \in mcusr)
    /\ KeptSignature
    /\ Restart(FALSE)

\* A power cycle: the reset cause flags of the run before are gone and the
\* registers hold anything.
PowerOn ==
    /\ pc # "reset"
    /\ mcusr' = {}
    /\ wdt' = FALSE
    /\ r2' \in {0, BOOTAPP_SIG_1}
    /\ r3' \in {0, BOOTAPP_SIG_2}
    /\ Restart(FALSE)

\* ------------------------------------------------------------------------
\* main()
\* ------------------------------------------------------------------------
\* off: whether wdt_disable() stops the watchdog (the hardware keeps it
\* armed while WDRF is set, and main does not clear WDRF)
Main(off) ==
    /\ pc = "reset"
    /\ wdt' = IF "WDRF" \in mcusr /\ BOOT_APP(r2, r3) /\ off THEN FALSE ELSE wdt
    /\ IF BootsApp(mcusr, r2, r3)
       THEN /\ r2' = 0
            /\ r3' = 0
            /\ pc' = "app"
            /\ UNCHANGED << mode, flash_status, dec >>
       ELSE /\ r2' = BOOTAPP_SIG_1
            /\ r3' = BOOTAPP_SIG_2
            /\ pc' = "poll"
            /\ mode' = MODE_FLASH
            /\ flash_status' = FLASH_WAITING
            /\ dec' = [dec EXCEPT !.page = new_page(dec.page)]
    /\ hist' = [hist EXCEPT !.deadman = FALSE]
    /\ UNCHANGED << mcusr, uart_error, line, len, hw, scn, call, uvars, hx, wdt_timer >>

\* ------------------------------------------------------------------------
\* bootloader(): one turn of the do-while that completes a line
\* ------------------------------------------------------------------------
\* the history of the passes after input k was handled in mode m: isHex
\* tells a record line from a command, r is flash_hex_line's result and hdr
\* the header it decoded
HistAfter(h, k, m, isHex, r, hdr) ==
    LET erred == isHex /\ r.status = FLASH_ERROR
        ok == isHex /\ r.status = FLASH_OK
        wfNow == m = MODE_FLASH /\ isHex /\ h.wf /\ WfImage(Append(h.fl, k))
        vokNow == /\ m = MODE_VERIFY /\ isHex /\ h.vok
                  /\ h.vpos < Len(h.fl)
                  /\ h.fl[h.vpos + 1] = k
        h1 == [h EXCEPT
                 !.n = @ + 1,
                 !.errInBoot = @ \/ erred,
                 !.errMode = IF erred THEN m ELSE @,
                 !.errPending = (@ \/ erred) /\ ~(ok /\ m = MODE_VERIFY),
                 !.noData = @ /\ ~(isHex /\ hdr.type = 0),
                 !.prevEnd = IF isHex /\ r.status = FLASH_GOING_ON
                             THEN IF hdr.type = 0
                                  THEN hdr.address + hdr.count - 1 ELSE NoEnd
                             ELSE @]
    IN IF m = MODE_FLASH
       THEN IF ok
            THEN [h1 EXCEPT !.wf = wfNow, !.vok = wfNow,
                            !.fl = IF wfNow THEN Append(h.fl, k) ELSE << >>,
                            !.fdone = TRUE, !.fwrites = r.d.writes,
                            !.vpos = 0, !.noData = TRUE, !.prevEnd = NoEnd]
            ELSE [h1 EXCEPT !.wf = wfNow,
                            !.fl = IF wfNow THEN Append(h.fl, k) ELSE << >>]
       ELSE [h1 EXCEPT !.vok = vokNow,
                       !.vpos = IF vokNow THEN @ + 1 ELSE 0,
                       !.fl = IF vokNow THEN @ ELSE << >>]

\* The client sends input k and the main loop polls get_line until it
\* returns 1 (lines 835-846), then dispatches the line and tests the loop
\* condition; g is what a read past the line buffer returns.  The bytes
\* reach get_line in the order sent and the echo is not followed here: the
\* two rings are followed byte by byte in SpecUart.
ReceiveLine(k, g) ==
    /\ pc = "poll"
    /\ uart_error % 2 = 0
    /\ (uart_error \div ERROR_RX_BUFFER_OVERFLOW) % 2 = 0
    /\ hist.n < Budget(scn)
    /\ \E gl \in {get_line(line, len, Bytes[k])} :
       \E o \in IF gl.top >= MAX_LINE_LEN THEN Neighbours ELSE {"other"} :
       \E d0 \in {StoreBeyond(dec, gl.top, o)} :
       \E r \in {flash_hex_line(gl.line, mode, d0, g, hw)} :
       \E hdr \in {[count |-> hex_byte_to_dec(gl.line, 1, g),
                    address |-> hex_word_to_dec(gl.line, 3, g),
                    type |-> hex_byte_to_dec(gl.line, 7, g)]} :
       \E s2 \in {Dispatch([pc |-> pc, mode |-> mode,
                            flash_status |-> flash_status,
                            r2 |-> r2, r3 |-> r3, wdt |-> wdt],
                           gl.line[0], r.status)} :
          /\ gl.ret = 1
          /\ gl.rest = << >>
          /\ line' = gl.line
          /\ len' = gl.len
          /\ pc' = s2.pc
          /\ mode' = s2.mode
          /\ flash_status' = s2.flash_status
          /\ r2' = s2.r2
          /\ r3' = s2.r3
          /\ wdt' = s2.wdt
          /\ dec' = IF gl.line[0] # COLON THEN d0
                    ELSE IF s2.mode # mode THEN [r.d EXCEPT !.writes = << >>]
                    ELSE r.d
          /\ call' = IF gl.line[0] = COLON
                     THEN [valid |-> TRUE, k |-> k, mode |-> mode, pre |-> d0,
                           status |-> r.status, why |-> r.why, at |-> r.at,
                           diag |-> r.diag, count |-> hdr.count,
                           address |-> hdr.address, type |-> hdr.type,
                           writes |-> r.d.writes,
                           noDataBefore |-> hist.noData,
                           prevEnd |-> hist.prevEnd]
                     ELSE NoCall
          /\ hist' = [HistAfter(hist, k, mode, gl.line[0] = COLON, r, hdr)
                         EXCEPT !.top = IF gl.top > @ THEN gl.top ELSE @]
    /\ UNCHANGED << mcusr, uart_error, hw, scn, uvars, hx, wdt_timer >>

Next ==
    \/ \E off \in BOOLEAN : Main(off)
    \/ \E k \in InputsOf(scn) : \E g \in Garbage(k) : ReceiveLine(k, g)
    \/ WatchdogReset
    \/ ExternalReset
    \/ PowerOn

Spec == Init /\ [][Next]_vars

\* ------------------------------------------------------------------------
\* The hex conversions on their own
\* ------------------------------------------------------------------------
\* bootloader() polls for a line after an external reset, in scenario s
BootloaderPolls(s) ==
    /\ pc = "poll"
    /\ wdt_timer = WdtTicks
    /\ mode = MODE_FLASH
    /\ flash_status = FLASH_WAITING
    /\ r2 = BOOTAPP_SIG_1
    /\ r3 = BOOTAPP_SIG_2
    /\ mcusr = {"EXTRF"}
    /\ wdt = FALSE
    /\ uart_error = 0
    /\ line = ZeroLine
    /\ len = 0
    /\ hw = "alias"
    /\ scn = s
    /\ dec = [page |-> new_page(ZeroPage), cpa |-> 0, last |-> NO_ADDRESS,
              flash |-> << >>, old |-> ERASED, writes |-> << >>]
    /\ call = NoCall
    /\ hist = HistInit

\* the four characters uart_send_int_hex sends for a word
Hex4(w) ==
    << word_to_hex(w) \div 16777216, (word_to_hex(w) \div 65536) % 256,
       (word_to_hex(w) \div 256) % 256, word_to_hex(w) % 256 >>

\* a line buffer that holds the characters chars from index 0 on
LineOf(chars) ==
    [i \in LineIndex |-> IF i < Len(chars) THEN chars[i + 1] ELSE 0]

\* every 16-bit word; its low byte runs over every byte
Words == 0 .. (Pow16 - 1)

HexInit ==
    /\ BootloaderPolls("hex")
    /\ UartInit
    /\ up.order = "lo_first"
    /\ hx \in { [HxIdle EXCEPT !.w = w] : w \in Words }

\* the low byte of hx.w through byte_to_hex and back through
\* hex_byte_to_dec, hx.w through word_to_hex and back through
\* hex_word_to_dec
HexConvert ==
    /\ ~hx.done
    /\ hx' = [w |-> hx.w, done |-> TRUE,
              bchars |-> Hex2(hx.w % 256),
              bout |-> hex_byte_to_dec(LineOf(Hex2(hx.w % 256)), 0, 0),
              wchars |-> Hex4(hx.w),
              wout |-> hex_word_to_dec(LineOf(Hex4(hx.w)), 0, 0)]
    /\ UNCHANGED << mvars, uvars, wdt_timer >>

HexNext == HexConvert

SpecHex == HexInit /\ [][HexNext]_vars

\* ------------------------------------------------------------------------
\* The transport, byte by byte
\* ------------------------------------------------------------------------
\* uart_error |= f, for a flag f that is a power of two
SetFlag(e, f) == IF (e \div f) % 2 = 1 THEN e ELSE e + f

HasFlag(e, f) == (e \div f) % 2 = 1

\* a mutant of ISR_USART_RX: on overflow the byte is stored over the oldest
ISR_USART_RX_overwrite(t, dor, fe, data) ==
    LET new_head == (t.rx_head + 1) % RX_BUFFER_LEN
        e1 == IF dor THEN SetFlag(t.uart_error, ERROR_RX_DATA_OVERRUN)
              ELSE t.uart_error
        e2 == IF fe THEN SetFlag(e1, ERROR_RX_FRAME_ERROR) ELSE e1
    IN [uart_error |-> IF new_head = t.rx_tail
                       THEN SetFlag(e2, ERROR_RX_BUFFER_OVERFLOW) ELSE e2,
        rx_buffer |-> [t.rx_buffer EXCEPT ![t.rx_head] = data],
        rx_head |-> new_head]

\* ISR(USART_RX_vect), lines 103-124, on t = [uart_error, rx_head, rx_tail,
\* rx_buffer]: dor and fe are DOR0 and FE0 of the status read, data is UDR0
ISR_USART_RX(t, dor, fe, data) ==
    LET new_head == (t.rx_head + 1) % RX_BUFFER_LEN
        e1 == IF dor THEN SetFlag(t.uart_error, ERROR_RX_DATA_OVERRUN)
              ELSE t.uart_error
        e2 == IF fe THEN SetFlag(e1, ERROR_RX_FRAME_ERROR) ELSE e1
    IN IF new_head = t.rx_tail
       THEN [uart_error |-> SetFlag(e2, ERROR_RX_BUFFER_OVERFLOW),
             rx_buffer |-> t.rx_buffer, rx_head |-> t.rx_head]
       ELSE [uart_error |-> e2,
             rx_buffer |-> [t.rx_buffer EXCEPT ![t.rx_head] = data],
             rx_head |-> new_head]

\* rx_head is a volatile uint16_t read by the main flow with interrupts on:
\* the 8-bit CPU reads it one byte at a time, and the receive interrupt may
\* run between the two reads.  FirstHalf is the byte read first, Read16 the
\* value the main flow ends up with when v is rx_head at the second read.
FirstHalf(order, v) == IF order = "lo_first" THEN v % 256 ELSE v \div 256

\* a mutant of Read16: the two bytes are read at once
Read16Atomic(order, half, v) == v

Read16(order, half, v) ==
    IF order = "lo_first" THEN (v \div 256) * 256 + half
    ELSE half * 256 + (v % 256)

\* a mutant of uart_send_full: the call never waits
uart_send_full_never(tail, new_head) == FALSE

\* line 321: the condition uart_send_byte idles on
uart_send_full(tail, new_head) == tail = new_head

\* the strings get_line and reboot_to_bootloader send on a fatal fault,
\* lines 469, 475 and 437, as character codes
OverflowMsg ==
    << 13, 10, 85, 65, 82, 84, 32, 101, 114, 114, 111, 114, 58, 32,
       98, 117, 102, 102, 101, 114, 32, 111, 118, 101, 114, 102, 108, 111,
       119, 32, 40, 116, 114, 121, 32, 97, 32, 108, 111, 119, 101, 114,
       32, 98, 97, 117, 100, 32, 114, 97, 116, 101, 41, 13, 10 >>

OverrunMsg ==
    << 13, 10, 85, 65, 82, 84, 32, 101, 114, 114, 111, 114, 58, 32,
       100, 97, 116, 97, 32, 111, 118, 101, 114, 114, 117, 110, 13, 10 >>

RebootMsg ==
    << 82, 101, 98, 111, 111, 116, 105, 110, 103, 32, 105, 110, 116, 111,
       32, 98, 111, 111, 116, 108, 111, 97, 100, 101, 114, 13, 10, 13,
       10 >>

\* uart_send_byte(c) is entered, line 319, by the flow in state u when
\* tx_head is th; g is the record of what was handed over so far
StartSend(u, c, th) ==
    [u EXCEPT !.at = "send", !.c = c, !.new_head = (th + 1) % TX_BUFFER_LEN]

Queued(g, c) == [g EXCEPT !.sent = @ + 1, !.queue = Append(@, c)]

\* What the client sends, byte n from 0, in scenario s: the start of a hex
\* line (no echo), or of a command line (echoed).  No line end is sent.
Stream(s, n) ==
    IF s \in {"burst", "early", "lag"}
    THEN (IF n = 0 THEN COLON ELSE 48 + (n % 10))
    ELSE 97 + (n % 26)

\* bytes that arrive beyond the capacity of the ring the scenario fills
MaxExtra == 2

\* calls of get_line while the client sends without waiting
MaxPolls == 2

\* the number of bytes the client sends in scenario s; in "flood" the
\* number after which the model stops counting them
Arrivals(s) ==
    IF s \in {"burst", "lag"} THEN RX_BUFFER_LEN + MaxExtra
    ELSE IF s = "flood" THEN RX_BUFFER_LEN + 1 + MaxExtra
    ELSE IF s = "early" THEN 255 + MaxExtra
    ELSE IF s = "echo" THEN TX_BUFFER_LEN + MaxExtra
    ELSE MaxExtra + 1

\* The client sends its first Paced(s) bytes one at a time, each after the
\* one before was read: a typed command in "echo" and "fault", the first
\* 255 bytes in "lag", the first two in "flood".
Paced(s) ==
    IF s = "lag" THEN 255
    ELSE IF s \in {"echo", "fault"} THEN Arrivals(s)
    ELSE IF s = "flood" THEN 2
    ELSE 0

\* The bootloader is busy outside get_line (a page write, a dump) from the
\* end of the paced bytes until Stalled(s) bytes have arrived.
Stalled(s) ==
    IF s \in {"burst", "lag"} THEN RX_BUFFER_LEN - 2
    ELSE IF s = "early" THEN 255
    ELSE IF s = "flood" THEN RX_BUFFER_LEN + 1
    ELSE 0

\* In scenario "flood" the client goes on sending, a key held down, until
\* it stops of its own accord (ug.quiet).
Endless(s) == s = "flood"

UartScenarios == {"burst", "early", "lag", "echo", "fault"}

\* The order of the two byte reads matters where rx_head carries into its
\* high byte under a read: "early" and "lag" start with either order, the
\* other scenarios with the low byte first.
UartStart ==
    /\ \E s \in UartScenarios : BootloaderPolls(s)
    /\ UartInit
    /\ scn \notin {"early", "lag"} => up.order = "lo_first"
    /\ hx = HxIdle

\* interrupts are enabled: bootloader() polls, or reboot() idles
Interruptible == pc \in {"poll", "reboot_bl"}

\* A byte arrives and the receive interrupt runs; its last statement
\* restarts the watchdog counter (wdt_reset, line 123).
RxIsr(dor, fe) ==
    /\ Interruptible
    /\ ~ug.quiet
    /\ ug.arrived < Arrivals(scn) \/ Endless(scn)
    /\ ug.arrived < Paced(scn) => rx_head = rx_tail /\ up.at = "idle"
    /\ (dor \/ fe) => scn = "fault"
    /\ \E t \in {ISR_USART_RX([uart_error |-> uart_error, rx_head |-> rx_head,
                                rx_tail |-> rx_tail, rx_buffer |-> rx_buffer],
                               dor, fe, Stream(scn, ug.arrived))} :
          /\ uart_error' = t.uart_error
          /\ rx_head' = t.rx_head
          /\ rx_buffer' = t.rx_buffer
    /\ ug' = [ug EXCEPT !.arrived = IF @ < Arrivals(scn) THEN @ + 1 ELSE @]
    /\ wdt_timer' = WdtTicks
    /\ UNCHANGED << pc, mode, flash_status, r2, r3, mcusr, wdt, line, len, dec,
                    hw, scn, call, hist, rx_tail, tx_head, tx_tail, tx_buffer,
                    udrie, up, hx >>

\* get_line() is called: lines 468-477 test the latched faults (the test
\* of the framing error is commented out).  On a fault the message and the
\* text of reboot_to_bootloader are sent, byte by byte; otherwise
\* uart_available() starts to read rx_head.
GetLineEnter ==
    /\ pc = "poll"
    /\ up.at = "idle"
    /\ ug.arrived >= Paced(scn) => ug.arrived >= Stalled(scn)
    /\ (Stalled(scn) > 0 /\ ug.arrived >= Paced(scn)) => ug.polls < MaxPolls
    /\ \E g \in {[ug EXCEPT !.polls = IF Stalled(scn) > 0
                                         /\ ug.arrived >= Paced(scn)
                                      THEN @ + 1 ELSE @]} :
       \E m \in {IF HasFlag(uart_error, ERROR_RX_BUFFER_OVERFLOW)
                 THEN OverflowMsg \o RebootMsg
                 ELSE IF HasFlag(uart_error, ERROR_RX_DATA_OVERRUN)
                 THEN OverrunMsg \o RebootMsg
                 ELSE << >>} :
          IF m # << >>
          THEN /\ up' = StartSend([up EXCEPT !.polled = uart_error,
                                             !.msg = Tail(m), !.fatal = TRUE],
                                  Head(m), tx_head)
               /\ ug' = Queued(g, Head(m))
          ELSE /\ up' = [up EXCEPT !.at = "avail", !.polled = uart_error,
                                   !.half = FirstHalf(up.order, rx_head)]
               /\ ug' = g
    /\ UNCHANGED << mvars, rx_head, rx_tail, rx_buffer, tx_head, tx_tail,
                    tx_buffer, udrie, hx, wdt_timer >>

\* uart_available(), lines 410-413: the second byte of rx_head is read and
\* compared; get_line returns 0 when the ring looks empty.
AvailRead2 ==
    /\ pc = "poll"
    /\ up.at = "avail"
    /\ up' = [up EXCEPT !.at = IF Read16(up.order, up.half, rx_head) = rx_tail
                               THEN "idle" ELSE "recv"]
    /\ UNCHANGED << mvars, rx_head, rx_tail, rx_buffer, tx_head, tx_tail,
                    tx_buffer, udrie, ug, hx, wdt_timer >>

\* uart_recv_byte(), line 395: the first byte of rx_head is read
RecvRead1 ==
    /\ pc = "poll"
    /\ up.at = "recv"
    /\ up' = [up EXCEPT !.at = "recv2", !.half = FirstHalf(up.order, rx_head)]
    /\ ug' = [ug EXCEPT !.unread = (rx_head + RX_BUFFER_LEN - rx_tail)
                                       % RX_BUFFER_LEN]
    /\ UNCHANGED << mvars, rx_head, rx_tail, rx_buffer, tx_head, tx_tail,
                    tx_buffer, udrie, hx, wdt_timer >>

\* uart_recv_byte(), lines 395-402, and the rest of get_line, lines 480-508:
\* the second byte of rx_head is read and compared.  "No data" (-1) comes
\* back to get_line as the char 0xFF; otherwise the byte at rx_tail is taken
\* with interrupts off.  get_line then stores the character, and echoes it
\* with uart_send_byte unless the line starts with ':'.
RecvRead2 ==
    /\ pc = "poll"
    /\ up.at = "recv2"
    /\ \E empty \in {Read16(up.order, up.half, rx_head) = rx_tail} :
       \E c \in {IF empty THEN 255 ELSE rx_buffer[rx_tail]} :
       \E gl \in {get_line_byte(line, len, c)} :
       \E echo \in {len < MAX_LINE_LEN - 1 /\ gl.line[0] # COLON} :
          /\ rx_tail' = IF empty THEN rx_tail
                        ELSE (rx_tail + 1) % RX_BUFFER_LEN
          /\ line' = gl.line
          /\ len' = gl.len
          /\ up' = IF echo THEN StartSend(up, c, tx_head)
                   ELSE [up EXCEPT !.at = "idle"]
          /\ \E g \in {[ug EXCEPT
                          !.noData = empty,
                          !.nread = IF empty THEN @ ELSE @ + 1,
                          !.fifo = @ /\ (empty \/ c = Stream(scn, ug.nread))]} :
                ug' = IF echo THEN Queued(g, c) ELSE g
    /\ UNCHANGED << pc, mode, flash_status, r2, r3, mcusr, wdt, uart_error, dec,
                    hw, scn, call, hist, rx_head, rx_buffer, tx_head, tx_tail,
                    tx_buffer, udrie, hx, wdt_timer >>

\* uart_send_byte(), lines 321-323: once the ring has a free slot (the
\* call idles until then) the byte is stored at tx_head
SendStore ==
    /\ pc = "poll"
    /\ up.at = "send"
    /\ ~uart_send_full(tx_tail, up.new_head)
    /\ tx_buffer' = [tx_buffer EXCEPT ![tx_head] = up.c]
    /\ up' = [up EXCEPT !.at = "send_head"]
    /\ UNCHANGED << mvars, rx_head, rx_tail, rx_buffer, tx_head, tx_tail,
                    udrie, ug, hx, wdt_timer >>

\* uart_send_byte(), lines 324-326: tx_head is advanced with interrupts off
SendHead ==
    /\ pc = "poll"
    /\ up.at = "send_head"
    /\ tx_head' = up.new_head
    /\ up' = [up EXCEPT !.at = "send_en"]
    /\ UNCHANGED << mvars, rx_head, rx_tail, rx_buffer, tx_tail, tx_buffer,
                    udrie, ug, hx, wdt_timer >>

\* uart_send_byte(), line 329: UDRIE0 is set and the call returns.  (The
\* interrupt may clear UDRIE0 inside the read-modify-write of UCSR0B; the
\* write that ends it sets the bit all the same.)  A string goes on with
\* its next byte; after the last byte of the fault text reboot() is
\* reached, lines 438-439; after an echo get_line returns 0.
SendEnable ==
    /\ pc = "poll"
    /\ up.at = "send_en"
    /\ udrie' = TRUE
    /\ IF up.msg # << >>
       THEN /\ up' = StartSend([up EXCEPT !.msg = Tail(@)], Head(up.msg),
                               tx_head)
            /\ ug' = Queued(ug, Head(up.msg))
            /\ UNCHANGED << pc, r2, r3, wdt, wdt_timer >>
       ELSE /\ up' = [up EXCEPT !.at = "idle"]
            /\ UNCHANGED ug
            /\ IF up.fatal
               THEN \E s2 \in {reboot_to_bootloader([pc |-> pc, mode |-> mode,
                                     flash_status |-> flash_status,
                                     r2 |-> r2, r3 |-> r3, wdt |-> wdt])} :
                       /\ pc' = s2.pc
                       /\ r2' = s2.r2
                       /\ r3' = s2.r3
                       /\ wdt' = s2.wdt
                       /\ wdt_timer' = WdtTicks
               ELSE UNCHANGED << pc, r2, r3, wdt, wdt_timer >>
    /\ UNCHANGED << mode, flash_status, mcusr, uart_error, line, len, dec, hw,
                    scn, call, hist, rx_head, rx_tail, rx_buffer, tx_head,
                    tx_tail, tx_buffer, hx >>

\* ISR(USART_UDRE_vect), lines 130-143: the UART can take a byte and the
\* interrupt is on; its last statement restarts the watchdog counter
\* (wdt_reset, line 142)
TxIsr ==
    /\ Interruptible
    /\ udrie
    /\ IF tx_head = tx_tail
       THEN /\ udrie' = FALSE
            /\ UNCHANGED << tx_tail, ug >>
       ELSE /\ tx_tail' = (tx_tail + 1) % TX_BUFFER_LEN
            /\ ug' = [ug EXCEPT
                        !.wired = @ + 1,
                        !.txok = @ /\ ug.queue # << >>
                                   /\ tx_buffer[tx_tail] = Head(ug.queue),
                        !.queue = IF @ = << >> THEN @ ELSE Tail(@)]
            /\ UNCHANGED udrie
    /\ wdt_timer' = WdtTicks
    /\ UNCHANGED << mvars, rx_head, rx_tail, rx_buffer, tx_head, tx_buffer,
                    up, hx >>

UartNext ==
    \/ \E dor \in BOOLEAN : \E fe \in BOOLEAN : RxIsr(dor, fe)
    \/ GetLineEnter
    \/ AvailRead2
    \/ RecvRead1
    \/ RecvRead2
    \/ SendStore
    \/ SendHead
    \/ SendEnable
    \/ TxIsr

SpecUart == UartStart /\ [][UartNext]_vars

\* ------------------------------------------------------------------------
\* reboot(): idling until the watchdog expires
\* ------------------------------------------------------------------------
\* The client types a character, which is read and echoed, and then floods
\* the ring while the bootloader is busy; get_line finds the overflow and
\* reboot() is reached through reboot_to_bootloader.
RebootStart ==
    /\ BootloaderPolls("flood")
    /\ UartInit
    /\ up.order = "lo_first"
    /\ hx = HxIdle

\* time passes: the counter of the armed watchdog runs down
Tick ==
    /\ wdt
    /\ wdt_timer > 0
    /\ wdt_timer' = wdt_timer - 1
    /\ UNCHANGED << mvars, uvars, hx >>

\* the counter has run down: the watchdog resets the device
WatchdogExpires ==
    /\ wdt_timer = 0
    /\ WatchdogReset

\* the client sends nothing from now on
ClientStops ==
    /\ Endless(scn)
    /\ ~ug.quiet
    /\ ug.arrived >= Stalled(scn)
    /\ ug' = [ug EXCEPT !.quiet = TRUE]
    /\ UNCHANGED << mvars, rx_head, rx_tail, rx_buffer, tx_head, tx_tail,
                    tx_buffer, udrie, up, hx, wdt_timer >>

RebootNext ==
    \/ \E dor \in BOOLEAN : \E fe \in BOOLEAN : RxIsr(dor, fe)
    \/ GetLineEnter
    \/ AvailRead2
    \/ RecvRead1
    \/ RecvRead2
    \/ SendStore
    \/ SendHead
    \/ SendEnable
    \/ TxIsr
    \/ Tick
    \/ WatchdogExpires
    \/ ClientStops

\* The hardware counts down whenever the watchdog is armed, resets the
\* device when the count is out, and runs an enabled interrupt at once.
SpecReboot ==
    /\ RebootStart
    /\ [][RebootNext]_vars
    /\ WF_vars(Tick)
    /\ WF_vars(WatchdogExpires)
    /\ WF_vars(TxIsr)

\* ------------------------------------------------------------------------
\* Properties
\* ------------------------------------------------------------------------
\* the byte the flash holds at address a < FLASH_SIZE, read from decoder
\* state d
FlashAt(d, a) ==
    IF (a \div PAGE_SIZE) \in DOMAIN d.flash
    THEN d.flash[a \div PAGE_SIZE][a % PAGE_SIZE]
    ELSE d.old

\* the record the client sent in the latest flash_hex_line call
CallRec == Script[call.k]

\* the latest call decoded a record sent whole
CallWhole == call.valid /\ CallRec.kind = "rec" /\ CallRec.cc = Len(CallRec.dd)

\* the 16-bit address of data byte i (from 0) of record rec
ByteAddr(rec, i) == (rec.aaaa + i) % Pow16

\* C1: once a pass has ended in ERROR the application is not
\* entered until a later FLASH pass and a later VERIFY pass both ended OK.
\* (Checked here for boots that are not a power-on: mcusr is not empty.)
C1_NeverRunsAfterError == pc = "app" /\ mcusr # {} => ~hist.errPending

\* C2: when a pass ends in ERROR the sequencer forces a reboot into the
\* bootloader: the signature is 0/0, the watchdog is armed, the main flow
\* idles in reboot, the failing call is the latest one and the pass is
\* still the failing one (no VERIFY after a failed FLASH, no reboot_to_app
\* after a failed VERIFY).
C2_ErrorForcesReboot ==
    hist.errInBoot =>
        /\ pc = "reboot_bl"
        /\ r2 = 0 /\ r3 = 0
        /\ wdt
        /\ mode = hist.errMode
        /\ flash_status = FLASH_ERROR
        /\ call.valid /\ call.status = FLASH_ERROR /\ call.mode = mode

\* a VERIFY pass has failed
C2_Witness == hist.errInBoot /\ hist.errMode = MODE_VERIFY /\ pc = "reboot_bl"

\* the addresses the data records of inputs q cover
Covered(q) ==
    UNION { { Script[q[j]].aaaa + i : i \in 0 .. (Script[q[j]].cc - 1) } :
            j \in 1 .. Len(q) }

\* the byte the last record of q that covers address a supplies for it
SuppliedAt(q, a) ==
    LET js == { j \in 1 .. Len(q) :
                  a - Script[q[j]].aaaa \in 0 .. (Script[q[j]].cc - 1) }
        j == CHOOSE x \in js : \A y \in js : y <= x
    IN Script[q[j]].dd[a - Script[q[j]].aaaa + 1]

Range(q) == { q[i] : i \in 1 .. Len(q) }

C4_VerifyAcceptsFlashed ==
    mode = MODE_VERIFY /\ hist.vok /\ hist.vpos > 0 =>
        /\ call.status # FLASH_ERROR
        /\ hist.vpos = Len(hist.fl) => flash_status = FLASH_OK

\* the data byte indices of record rec whose byte differs from the flash
\* of decoder state d (hardware-resolved past the flash)
Mismatches(rec, d) ==
    { i \in 0 .. (rec.cc - 1) :
        rec.dd[i + 1] #
            (IF ByteAddr(rec, i) < FLASH_SIZE THEN FlashAt(d, ByteAddr(rec, i))
             ELSE pgm_read_byte(d.flash, d.old, ByteAddr(rec, i), hw)) }

Min(S) == CHOOSE x \in S : \A y \in S : x <= y
Max(S) == CHOOSE x \in S : \A y \in S : x >= y

C6_BadChecksumIsError ==
    CallWhole /\ RecSum(CallRec) % 256 # 0 => call.status = FLASH_ERROR

\* a record whose bytes match the flash but whose sum, above 255, is off by
\* one was rejected in VERIFY mode for its checksum
C6_Witness ==
    /\ CallWhole /\ call.mode = MODE_VERIFY /\ call.why = "checksum"
    /\ RecSum(CallRec) > 256 /\ RecSum(CallRec) % 256 = 1

\* the latest call rejected a whole record, in FLASH mode, for its checksum
ChecksumRejected ==
    CallWhole /\ call.mode = MODE_FLASH /\ call.why = "checksum"

\* C7: a record rejected for its checksum in FLASH mode leaves the
\* page buffer, the page index and the flash as they were.
C7_RejectedLeavesPage ==
    ChecksumRejected =>
        /\ dec.page = call.pre.page
        /\ dec.cpa = call.pre.cpa
        /\ dec.flash = call.pre.flash

\* C8: a data record with a nonzero address, with no data record
\* before it in the pass, returns ERROR and changes neither the page
\* buffer, the page index nor the flash.
C8_FirstAddressZero ==
    CallWhole /\ CallRec.tt = 0 /\ CallRec.aaaa # 0 /\ call.noDataBefore =>
        /\ call.status = FLASH_ERROR
        /\ dec.page = call.pre.page
        /\ dec.cpa = call.pre.cpa
        /\ dec.flash = call.pre.flash

\* C9: a data record accepted right after an accepted data record
\* does not start below that record's end address.
C9_NoRegress ==
    /\ call.valid /\ call.status = FLASH_GOING_ON /\ call.type = 0
    /\ call.prevEnd # NoEnd
    => call.address >= call.prevEnd

\* the pages write_current_page is called for while the data bytes of rec
\* from byte i on are stored, the staged page being staged
RECURSIVE Flushes(_, _, _)
Flushes(staged, rec, i) ==
    IF i >= rec.cc THEN << >>
    ELSE LET p == ByteAddr(rec, i) \div PAGE_SIZE
         IN (IF p # staged THEN << staged >> ELSE << >>)
                \o Flushes(p, rec, i + 1)

\* the inputs q are data records that follow one another from address 0,
\* with an end-of-file record at most at the end
Contiguous(q) ==
    \A j \in 1 .. Len(q) :
        Script[q[j]].tt = 0 =>
            /\ Script[q[j]].cc > 0
            /\ Script[q[j]].aaaa = Cardinality(Covered(SubSeq(q, 1, j - 1)))

\* the pages 0, 1, ... n-1 in order
FirstPages(n) == [i \in 1 .. n |-> i - 1]

\* C10: in FLASH mode write_current_page is called exactly once each time
\* the next data byte falls outside the staged page, for the page that was
\* staged, and not otherwise (once more at end-of-file); after a crossing the
\* page buffer is 0xFF except for the bytes stored since.  A contiguous
\* image from address 0 is flushed once per page boundary crossed, in page
\* order, and once more at end-of-file.
C10_OneFlushPerCrossing ==
    /\ CallWhole /\ call.mode = MODE_FLASH
       /\ call.why \notin {"first", "increasing"} =>
          LET rec == CallRec
              loopW == Flushes(call.pre.cpa, rec, 0)
              ended == call.status = FLASH_OK
              last == IF rec.cc = 0 THEN call.pre.cpa
                      ELSE ByteAddr(rec, rec.cc - 1) \div PAGE_SIZE
              cross == { i \in 0 .. (rec.cc - 1) :
                           ByteAddr(rec, i) \div PAGE_SIZE #
                              (IF i = 0 THEN call.pre.cpa
                               ELSE ByteAddr(rec, i - 1) \div PAGE_SIZE) }
          IN /\ call.writes = call.pre.writes \o loopW
                                \o (IF ended THEN << last >> ELSE << >>)
             /\ Len(loopW) = Cardinality(cross)
             /\ ~ended => dec.cpa = last
             /\ ~ended /\ cross # {} =>
                   \A off \in PageIndex :
                      LET is == { i \in Max(cross) .. (rec.cc - 1) :
                                    ByteAddr(rec, i) % PAGE_SIZE = off }
                      IN dec.page[off] =
                            IF is = {} THEN ERASED ELSE rec.dd[Max(is) + 1]
    /\ mode = MODE_FLASH /\ flash_status = FLASH_GOING_ON /\ hist.wf
       /\ hist.fl # << >> /\ Contiguous(hist.fl) =>
          /\ dec.writes = FirstPages((Cardinality(Covered(hist.fl)) - 1) \div PAGE_SIZE)
          /\ dec.cpa = (Cardinality(Covered(hist.fl)) - 1) \div PAGE_SIZE
    /\ hist.fdone /\ hist.vok /\ Contiguous(hist.fl) /\ Covered(hist.fl) # {} =>
          hist.fwrites =
             FirstPages((Cardinality(Covered(hist.fl)) - 1) \div PAGE_SIZE + 1)

\* a record of a contiguous image has crossed from page 0 into page 1
C10_Witness ==
    /\ CallWhole /\ call.mode = MODE_FLASH /\ call.status = FLASH_GOING_ON
    /\ hist.wf /\ Contiguous(hist.fl) /\ Len(hist.fl) > 1
    /\ call.writes = << 0 >> /\ call.pre.writes = << >>
    /\ dec.cpa = 1

\* C11: main enters the application if and only if neither EXTRF nor WDRF
\* is set or the signature is 0xb0/0xaa, and then the signature is 0/0 at the
\* jump; in every other case it sets the signature to 0xb0/0xaa and runs the
\* bootloader.
C11_MainDecision ==
    [][pc = "reset" /\ pc' # "reset" =>
         IF ("EXTRF" \notin mcusr /\ "WDRF" \notin mcusr)
               \/ (r2 = 176 /\ r3 = 170)
         THEN pc' = "app" /\ r2' = 0 /\ r3' = 0
         ELSE pc' = "poll" /\ r2' = 176 /\ r3' = 170]_vars

\* main has run the bootloader after a watchdog reset
C11_Witness == pc = "poll" /\ "WDRF" \in mcusr /\ r2 = 176 /\ r3 = 170

\* C12: when the watchdog resets the device while bootloader() polls for a
\* line, main runs the bootloader again, not the application.
C12_DeadmanRunsBootloader ==
    [][pc = "reset" /\ hist.deadman => pc' # "app"]_vars

\* the hex digit characters, by value
HexDigit == << 48, 49, 50, 51, 52, 53, 54, 55, 56, 57, 65, 66, 67, 68, 69, 70 >>

\* C16: hex_byte_to_dec of the two characters of byte_to_hex(b) is b for
\* every byte, hex_word_to_dec of the four characters of word_to_hex(w) is w
\* for every 16-bit word, and the characters are the hex digits of the value,
\* most significant first.
C16_HexRoundTrip ==
    hx.done =>
        /\ hx.bout = hx.w % 256
        /\ hx.wout = hx.w
        /\ hx.bchars = << HexDigit[((hx.w \div 16) % 16) + 1],
                          HexDigit[(hx.w % 16) + 1] >>
        /\ hx.wchars = << HexDigit[(hx.w \div 4096) + 1],
                          HexDigit[((hx.w \div 256) % 16) + 1],
                          HexDigit[((hx.w \div 16) % 16) + 1],
                          HexDigit[(hx.w % 16) + 1] >>

\* the word 0xA5F0, whose digits are all different, went both ways
C16_Witness == hx.done /\ hx.w = 42480 /\ hx.wout = 42480 /\ hx.bout = 240

\* C13: as long as the inbound ring has not overflowed, the bytes
\* uart_recv_byte returned are the bytes that arrived, in arrival order and
\* each once, and uart_recv_byte returned "no data" only when no unread
\* byte was in the ring when it was called.
C13_RecvFifo ==
    ~HasFlag(uart_error, ERROR_RX_BUFFER_OVERFLOW) =>
        /\ ug.fifo
        /\ ug.nread <= ug.arrived
        /\ ug.noData => ug.unread = 0

\* C14: a byte that arrives while advancing rx_head would reach rx_tail sets
\* the overflow flag and is dropped: rx_head, rx_tail and the ring keep
\* their values; and the overflow flag, once set, stays set.
C14_OverflowDropsNewest ==
    [][/\ (ug.arrived' = ug.arrived + 1
             /\ (rx_head + 1) % RX_BUFFER_LEN = rx_tail)
          => /\ HasFlag(uart_error', ERROR_RX_BUFFER_OVERFLOW)
             /\ rx_head' = rx_head
             /\ rx_tail' = rx_tail
             /\ rx_buffer' = rx_buffer
       /\ HasFlag(uart_error, ERROR_RX_BUFFER_OVERFLOW)
          => HasFlag(uart_error', ERROR_RX_BUFFER_OVERFLOW)]_vars

\* a byte was dropped: the ring is full, of the 1023 bytes before it
C14_Witness ==
    /\ HasFlag(uart_error, ERROR_RX_BUFFER_OVERFLOW)
    /\ (rx_head + 1) % RX_BUFFER_LEN = rx_tail
    /\ ug.arrived > ug.nread + RX_BUFFER_LEN - 1
    /\ \A i \in 0 .. (RX_BUFFER_LEN - 2) :
          rx_buffer[(rx_tail + i) % RX_BUFFER_LEN] = Stream(scn, ug.nread + i)

\* the bytes of the outbound ring from tx_tail to tx_head, oldest first
TxRing ==
    [i \in 1 .. ((tx_head + TX_BUFFER_LEN - tx_tail) % TX_BUFFER_LEN) |->
        tx_buffer[(tx_tail + i - 1) % TX_BUFFER_LEN]]

\* the byte uart_send_byte holds and has not made visible yet
TxPending == IF up.at \in {"send", "send_head"} THEN << up.c >> ELSE << >>

\* C15: the bytes the UART was handed are the bytes passed to
\* uart_send_byte, in call order and each once; the bytes not handed over
\* yet are in the ring, in call order, or held by the call in progress; and
\* a call that waits on the full ring has the interrupt enabled that frees
\* a slot.
C15_SendKeepsEveryByte ==
    /\ ug.txok
    /\ ug.wired + Len(ug.queue) = ug.sent
    /\ ug.queue = TxRing \o TxPending
    /\ (up.at = "send" /\ uart_send_full(tx_tail, up.new_head)) => udrie

\* a call found the ring full, of the 31 bytes before it, and waits
C15_Witness ==
    /\ up.at = "send"
    /\ tx_tail = up.new_head
    /\ Len(ug.queue) = TX_BUFFER_LEN
    /\ ug.wired > 0

\* C17: when get_line is called with a fault flag set it takes the fatal
\* path; a call that found a fault flag set takes no byte from the ring; and
\* the fatal path ends in reboot() with the signature 0/0 and the watchdog
\* armed.
C17_FaultIsFatal ==
    [][/\ (pc = "poll" /\ up.at = "idle" /\ up'.at # "idle" /\ uart_error # 0)
          => up'.fatal
       /\ rx_tail' # rx_tail => up.polled = 0
       /\ (pc = "poll" /\ pc' = "reboot_bl")
          => r2' = 0 /\ r3' = 0 /\ wdt']_vars

\* C18: every store get_line makes to the line buffer is at an index from 0
\* to MAX_LINE_LEN - 1, whatever the length of the line received.
C18_LineStoresInBounds == hist.top <= MAX_LINE_LEN - 1

\* C19: a record of a type other than 0 and 1 that flash_hex_line accepted
\* left the page buffer, the staged page address, the flash and
\* last_address as they were before the call.
C19_OtherTypesIgnored ==
    (call.valid /\ call.type \notin {0, 1} /\ call.status = FLASH_GOING_ON) =>
        /\ dec.page = call.pre.page
        /\ dec.cpa = call.pre.cpa
        /\ dec.flash = call.pre.flash
        /\ dec.last = call.pre.last

\* the page addresses q, in the order written, are strictly increasing
StrictlyUp(q) == \A i \in 1 .. Len(q) : \A j \in 1 .. Len(q) : i < j => q[i] < q[j]

\* C20: the pages write_current_page wrote in a FLASH pass, running or
\* completed, were written in strictly increasing order of page address.
C20_PageWritesIncrease ==
    /\ mode = MODE_FLASH => StrictlyUp(dec.writes)
    /\ StrictlyUp(hist.fwrites)

\* the page addresses q all lie inside the flash
InsideFlash(q) == \A i \in 1 .. Len(q) : q[i] * PAGE_SIZE < FLASH_SIZE

\* C22: every page write_current_page erased and wrote, in the running pass
\* and in the completed FLASH pass, has current_page_address * PAGE_SIZE
\* below FLASH_SIZE.
C22_PageWritesInsideFlash ==
    /\ InsideFlash(dec.writes)
    /\ InsideFlash(hist.fwrites)

\* the highest index of line the latest flash_hex_line call read: the header
\* alone when the address was refused (line 644), up to the mismatching
\* data byte in VERIFY mode (line 663), else up to the checksum (line 673)
LastRead ==
    IF call.why \in {"first", "increasing"} THEN 8
    ELSE IF call.why = "mismatch" THEN 10 + 2 * call.at
    ELSE 10 + 2 * call.count

\* the index of the NUL that ends the line in the buffer ln
NulAt(ln) ==
    IF \E i \in LineIndex : ln[i] = 0
    THEN CHOOSE i \in LineIndex : ln[i] = 0 /\ \A j \in 0 .. (i - 1) : ln[j] # 0
    ELSE MAX_LINE_LEN

\* C23: every index flash_hex_line read while decoding a line is below
\* MAX_LINE_LEN and before the NUL that ends the line.
C23_ReadsInsideLine ==
    call.valid => LastRead < MAX_LINE_LEN /\ LastRead < NulAt(line)

\* while reboot() idles after reboot_to_bootloader: the signature is 0/0 and
\* the watchdog is armed, and the main flow does nothing more: it takes no
\* byte from the ring, stores nothing in the line, hands nothing to
\* uart_send_byte and writes no page, and only a reset ends the idling
RebootIdles ==
    [][pc = "reboot_bl" =>
         /\ r2 = 0 /\ r3 = 0 /\ wdt
         /\ pc' \in {"reboot_bl", "reset"}
         /\ pc' = "reboot_bl" =>
               /\ rx_tail' = rx_tail
               /\ line' = line
               /\ len' = len
               /\ tx_head' = tx_head
               /\ dec' = dec
               /\ up' = up]_vars

\* C21 as stated: after reboot_to_bootloader the main flow never resumes,
\* and the watchdog reset eventually occurs, whatever the client does.
C21_RebootAlwaysResets ==
    RebootIdles /\ (pc = "reboot_bl" ~> pc = "reset")

\* C21: after reboot_to_bootloader the main flow never resumes, and once
\* the client has stopped sending the watchdog reset eventually occurs.
C21_RebootResetsOnceQuiet ==
    RebootIdles /\ ((pc = "reboot_bl" /\ ug.quiet) ~> pc = "reset")

\* the watchdog has reset the device out of reboot(), after the client
\* stopped sending
C21_Witness ==
    /\ pc = "reset"
    /\ "WDRF" \in mcusr
    /\ r2 = 0 /\ r3 = 0
    /\ ug.quiet
    /\ HasFlag(up.polled, ERROR_RX_BUFFER_OVERFLOW)

====
